---------------------------- MODULE Spec2Model ----------------------------
(***************************************************************************)
(* QWOP: the articulated character controller (src/src/character.js), the  *)
(* game loop that drives it (game.js, src/unnamed/part_003), the physics   *)
(* adapter (physics.js, src/unnamed/part_000) and the input handler        *)
(* (input.js, src/unnamed/part_004).                                       *)
(*                                                                         *)
(* Units.  Time is counted in units of 1/300 s, so that one fixed timestep *)
(* (1/60 s) is 5 units, the 80 ms impulse interval is 24 units, 100 ms is  *)
(* 30 units and 500 ms is 150 units.  Every other quantity (angles,        *)
(* stiffness, damping, impulses, positions) is in thousandths.             *)
(*                                                                         *)
(* Clocks.  The code stores readings of performance.now() (Game.lastTime,  *)
(* Character.lastTimestamp) and only ever uses their difference to the     *)
(* current reading.  The model stores that difference (the age of the      *)
(* reading) instead of the reading.                                        *)
(***************************************************************************)
EXTENDS Integers, Sequences, FiniteSets, TLC

(***************************************************************************)
(* Bounds of the model (not program constants).                            *)
(***************************************************************************)
\* Skeleton builds in one run of the model: Game.init() plus the start()s.
MaxBuilds == 3
\* Display refreshes that may pass before a pending gameLoop callback runs.
MaxFrameGap == 2
\* Control keys held down at the same time.
MaxHeld == 1

(***************************************************************************)
(* Program constants.                                                      *)
(***************************************************************************)
FIXED_TIMESTEP == 5
impulseInterval == 24
RELAX_DELAY == 150
START_IMPULSE_DELAY == 30

MAX_MOTOR_VELOCITY == 20000
JOINT_MOTOR_MAX_FORCE == 100000
DISABLE_MAX_FORCE == 100
INITIAL_STIFFNESS == 35000
INITIAL_DAMPING == 3000
LINEAR_DAMPING == 150
ANGULAR_DAMPING == 150
INITIAL_BODY_DAMPING == 800
INITIAL_TORSO_DAMPING == 1000
RELAXING_DAMPING == 500

KNEE_STIFFNESS == 10000
KNEE_DAMPING == 1000
KNEE_REST_ANGLE == -50
STABILIZE_KNEE_ANGLE == -50
SHOULDER_STIFFNESS == 8000
SHOULDER_DAMPING == 1200
SHOULDER_REST_ANGLE == 393
SHOULDER_MIN_ANGLE == -1571
SHOULDER_MAX_ANGLE == 1571
counterbalanceStrength == -3
predictiveStrength == -2

TORSO_HEIGHT == 600
TORSO_WIDTH == 300
neckOffset == 100
headRadius == 150
HEAD_GROUND_THRESHOLD == -4800
INITIAL_POSITION_X == 0
INITIAL_POSITION_Y == -3500

Keys == {"KeyQ", "KeyW", "KeyO", "KeyP"}

Links == {"torso", "leftArm", "rightArm", "leftThigh", "rightThigh",
          "leftCalf", "rightCalf", "leftFoot", "rightFoot"}

Joints == {"leftShoulder", "rightShoulder", "leftHip", "rightHip",
           "leftKnee", "rightKnee", "leftAnkle", "rightAnkle"}

\* The joint handle that createRevoluteJoint returns on failure.
Null == 0

(***************************************************************************)
(* MotorState of a joint: what the last configureMotor* call on the joint  *)
(* handle set.  A freshly created joint has had no such call.              *)
(***************************************************************************)
Unset == [mode |-> "unset", a |-> 0, b |-> 0, c |-> 0]
VelocityDrive(targetVelocity, maxForce) ==
    [mode |-> "velocity", a |-> targetVelocity, b |-> maxForce, c |-> 0]
PositionHold(targetAngle, stiffness, damping) ==
    [mode |-> "position", a |-> targetAngle, b |-> stiffness, c |-> damping]

VARIABLES
    \* ---- Game (game.js)
    gameState,        \* GAME_STATES
    maxDistance,      \* Game.maxDistance
    accumulator,      \* Game.accumulator
    lastTimeAge,      \* performance.now() - Game.lastTime, while a gameLoop is scheduled
    animationFrameId, \* Game.animationFrameId: Null, or the id of the last request
    rafPending,       \* gameLoop callbacks requested and not yet run or cancelled
    pc,               \* "idle", or "loop": inside gameLoop's while loop
    \* ---- UI (ui.js)
    panel,            \* the panel shown
    score,            \* the text of the score display, in tenths
    \* ---- InputHandler (input.js)
    keyState,
    \* ---- Character (character.js)
    impulseTimer,
    lastTimestampAge, \* performance.now() - Character.lastTimestamp, saturating
    bodies,           \* Character.bodies: link name -> build number of its handle
    joints,           \* Character.joints: joint name -> build number, or Null
    \* ---- physics world (physics.js and the engine behind it)
    worldBodies,      \* rigid bodies in the world: <<build, link>>
    worldJoints,      \* impulse joints in the world: <<build, joint>>
    colliderGroups,   \* collision groups of the colliders in the world, by
                      \* body; the ground's body is Ground
    damping,          \* link -> [lin, ang] of the current bodies
    motor,            \* joint -> MotorState of the current joints
    pose,             \* what the engine reports for the current skeleton
    \* ---- the browser's timer queue
    timers,           \* setTimeout callbacks pending, in creation order
    \* ---- history variables
    builds,           \* number of skeleton builds so far
    sinceBuild,       \* time since the last build, saturating
    gateSinceKick,    \* gate time since the last kick on any limb, saturating
    heldSteps,        \* update steps since start() with KeyQ down on every one
                      \* of them, up to HoldSteps; -1 once KeyQ was up on one
    heldKicks,        \* left-thigh kicks during those steps
    torsoImpulses,    \* impulses that the torso of the current skeleton got
                      \* from stabilizeJoints and from the timer of start():
                      \* [up: upward linear ones, ang: angular ones]
    last              \* what the handler step that led to this state did

vars == <<gameState, maxDistance, accumulator, lastTimeAge, animationFrameId,
          rafPending, pc, panel, score, keyState, impulseTimer,
          lastTimestampAge, bodies, joints, worldBodies, worldJoints,
          colliderGroups, damping, motor, pose, timers, builds, sinceBuild,
          gateSinceKick, heldSteps, heldKicks, torsoImpulses, last>>

Min(x, y) == IF x <= y THEN x ELSE y


(***************************************************************************)
(* The physics engine is an external collaborator.  What the model keeps   *)
(* of it is the pose it reports for the current skeleton: torso position,  *)
(* rotation (with its cosine), angular velocity, linear velocity and the x *)
(* position of the two thighs, as of the rebuild or the last world.step(). *)
(* Impulses applied since then are in the impulse log of the step.         *)
(* world.step() moves the skeleton from one pose to another.               *)
(***************************************************************************)
SpawnPose ==
    [x |-> INITIAL_POSITION_X, y |-> INITIAL_POSITION_Y, rot |-> 0,
     cosRot |-> 1000, angvel |-> 0, vx |-> 0, vy |-> 0,
     leftThighX |-> INITIAL_POSITION_X - TORSO_WIDTH \div 4,
     rightThighX |-> INITIAL_POSITION_X + TORSO_WIDTH \div 4]
LeanPose ==
    [x |-> 500, y |-> -3600, rot |-> 300, cosRot |-> 955, angvel |-> -500,
     vx |-> 400, vy |-> -200, leftThighX |-> 650, rightThighX |-> 450]
FallenPose ==
    [x |-> 800, y |-> -4700, rot |-> 1571, cosRot |-> 0, angvel |-> 0,
     vx |-> 0, vy |-> 0, leftThighX |-> 800, rightThighX |-> 800]
Poses == {SpawnPose, LeanPose, FallenPose}

\* Torso rotations, angular velocities and heights for which the controller
\* and the fall detector are checked pose by pose (at the spawn point, with
\* the thighs where the build puts them).
Thetas == {-1000, -300, 0, 300, 1000}
Omegas == {-500, 0, 2000}
TorsoYs == {-3500, -5049, -5050}

\* Math.cos of the sampled rotations.
CosOf(theta) ==
    IF theta = 0 THEN 1000
    ELSE IF theta \in {-300, 300} THEN 955
    ELSE 540

TorsoPoses ==
    {[SpawnPose EXCEPT !.y = y, !.rot = theta, !.cosRot = CosOf(theta),
                       !.angvel = omega] :
        theta \in Thetas, omega \in Omegas, y \in TorsoYs}

\* Offsets of a thigh from the torso along the track for which the arm swing
\* is checked, and the poses with these offsets, 0.5 m down the track.
ThighOffsets == {-200, 0, 200}
StridePoses ==
    {[SpawnPose EXCEPT !.x = 500, !.leftThighX = 500 + l,
                       !.rightThighX = 500 + r] :
        l \in ThighOffsets, r \in ThighOffsets}

SampledPoses == TorsoPoses \cup StridePoses

\* The poses one world.step() can lead to: from the spawn point the runner
\* stays, leans forward or goes down; once leaning it does not come back to
\* the spawn point; a runner that is down stays down.  From any other pose
\* the engine can report any of the sampled poses.
PhysicsStep(p) ==
    IF p = SpawnPose THEN Poses
    ELSE IF p = LeanPose THEN {LeanPose, FallenPose}
    ELSE IF p = FallenPose THEN {FallenPose}
    ELSE SampledPoses

\* A detector that misses a head exactly at the threshold.
isHeadTouchingGround_Below(p) ==
    LET torsoHeadOffset == TORSO_HEIGHT \div 2 + neckOffset
        headY == p.y + (p.cosRot * torsoHeadOffset) \div 1000
    IN  (headY - headRadius) < HEAD_GROUND_THRESHOLD

\* Character.isHeadTouchingGround
isHeadTouchingGround(p) ==
    LET torsoHeadOffset == TORSO_HEIGHT \div 2 + neckOffset
        headY == p.y + (p.cosRot * torsoHeadOffset) \div 1000
    IN  (headY - headRadius) <= HEAD_GROUND_THRESHOLD

(***************************************************************************)
(* Collision filtering (physics.js).  A collider carries a 32-bit word:    *)
(* its membership bits in the upper half, its filter bits in the lower.    *)
(***************************************************************************)
RECURSIVE BitAnd(_, _)
BitAnd(x, y) ==
    IF x = 0 \/ y = 0 THEN 0
    ELSE (x % 2) * (y % 2) + 2 * BitAnd(x \div 2, y \div 2)

RECURSIVE BitOr(_, _)
BitOr(x, y) ==
    IF x = 0 THEN y
    ELSE IF y = 0 THEN x
    ELSE (IF x % 2 = 1 \/ y % 2 = 1 THEN 1 ELSE 0)
         + 2 * BitOr(x \div 2, y \div 2)

CollisionGroups ==
    [DEFAULT |-> 65535, TORSO |-> 1, LEFT_LEG |-> 2, RIGHT_LEG |-> 4,
     GROUND |-> 8]

CollisionFilters ==
    [TORSO |->
        [memberships |-> CollisionGroups.TORSO,
         filter |-> BitOr(CollisionGroups.GROUND,
                          BitOr(CollisionGroups.LEFT_LEG,
                                CollisionGroups.RIGHT_LEG))],
     LEFT_LEG |->
        [memberships |-> CollisionGroups.LEFT_LEG,
         filter |-> BitOr(CollisionGroups.GROUND, CollisionGroups.TORSO)],
     RIGHT_LEG |->
        [memberships |-> CollisionGroups.RIGHT_LEG,
         filter |-> BitOr(CollisionGroups.GROUND, CollisionGroups.TORSO)],
     GROUND |->
        [memberships |-> CollisionGroups.GROUND,
         filter |-> BitOr(CollisionGroups.TORSO,
                          BitOr(CollisionGroups.LEFT_LEG,
                                CollisionGroups.RIGHT_LEG))]]

\* colliderDesc.setCollisionGroups((memberships << 16) | filter)
setCollisionGroups(collisionFilter) ==
    BitOr(collisionFilter.memberships * 2^16, collisionFilter.filter)

\* The two halves of the word, as the engine reads them.
MembershipsOf(groups) == groups \div 2^16
FilterOf(groups) == groups % 2^16

\* The engine's test on two colliders.
Collide(g1, g2) ==
    /\ BitAnd(MembershipsOf(g1), FilterOf(g2)) # 0
    /\ BitAnd(MembershipsOf(g2), FilterOf(g1)) # 0

LeftLegLinks == {"leftThigh", "leftCalf", "leftFoot"}
RightLegLinks == {"rightThigh", "rightCalf", "rightFoot"}

\* Leg links built so that they are filtered against everything, the
\* other leg included.
LinkFilter_LegsCollide(l) ==
    IF l = "torso" THEN CollisionFilters.TORSO
    ELSE IF l \in LeftLegLinks \cup {"leftArm"}
         THEN [CollisionFilters.GROUND EXCEPT
                  !.memberships = CollisionGroups.LEFT_LEG,
                  !.filter = BitOr(@, CollisionGroups.GROUND)]
    ELSE [CollisionFilters.GROUND EXCEPT
             !.memberships = CollisionGroups.RIGHT_LEG,
             !.filter = BitOr(@, CollisionGroups.GROUND)]

\* Character.createPhysicsBodies: the collision filter each link is built
\* with.
LinkFilter(l) ==
    IF l = "torso" THEN CollisionFilters.TORSO
    ELSE IF l \in LeftLegLinks \cup {"leftArm"} THEN CollisionFilters.LEFT_LEG
    ELSE CollisionFilters.RIGHT_LEG

\* The body of the ground (and of the hurdles on it).
Ground == <<0, "ground">>

\* PhysicsWorld.createGround: the collider of the ground.
GroundCollider ==
    [g \in {Ground} |-> setCollisionGroups(CollisionFilters.GROUND)]

\* PhysicsWorld.createDynamicBody for the links of build b: their colliders.
BodyColliders(b) ==
    [wb \in {<<b, l>> : l \in Links} |-> setCollisionGroups(LinkFilter(wb[2]))]

(***************************************************************************)
(* History record: what the last handler step did to links and joints.     *)
(*   by       "none", "build", "timer", "update" (an update step that ran  *)
(*            applyInputForces to its end) or "skip" (an update step that  *)
(*            returned before)                                             *)
(*   playing  the update step found gameState = Playing                    *)
(*   fired    shouldApplyImpulse of the step                               *)
(*   delta    deltaTime of the step                                        *)
(*   gap      gate time since the last kick on any limb, this step's       *)
(*            deltaTime included                                           *)
(*   impulses the impulses applied, in order                               *)
(*   gateTime impulseTimer + deltaTime, what the step compares with the    *)
(*            interval                                                     *)
(*   seq      for a build: its number; for a timer: the number of the      *)
(*            build whose stabilizeJoints or start scheduled it            *)
(*   damped   the step set the damping of the links                        *)
(*   theta    for an update: the torso rotation the controller read        *)
(*   omega    for an update: the torso angular velocity it read            *)
(*   moved    for a build: the skeleton it replaced was away from the      *)
(*            spawn pose                                                   *)
(*   ui       the calls the step made on the UI, in order                  *)
(*   leftRel  for an update: the x offset of the left thigh from the torso *)
(*            that the controller read                                     *)
(*   rightRel the same for the right thigh                                 *)
(*   step     for an update step: its number among the iterations of the   *)
(*            while loop of this gameLoop call                             *)
(*   entered  for an update step: the accumulator with which this gameLoop *)
(*            call entered its while loop                                  *)
(***************************************************************************)
NoLast ==
    [by |-> "none", playing |-> FALSE, fired |-> FALSE, delta |-> 0,
     gap |-> 0, gateTime |-> 0, impulses |-> <<>>, seq |-> 0,
     damped |-> FALSE, theta |-> 0, omega |-> 0, moved |-> FALSE,
     ui |-> <<>>, leftRel |-> 0, rightRel |-> 0, step |-> 0, entered |-> 0]

\* Calls on the UI collaborator (ui.js).
showMainMenu == [call |-> "showMainMenu", arg |-> 0]
showGameUI == [call |-> "showGameUI", arg |-> 0]
updateScore(distance) == [call |-> "updateScore", arg |-> distance]
showGameOver(finalScore) == [call |-> "showGameOver", arg |-> finalScore]

Impulse(link, x, y) == [link |-> link, x |-> x, y |-> y, ang |-> 0]
AngularImpulse(link, ang) == [link |-> link, x |-> 0, y |-> 0, ang |-> ang]

\* Number of entries of the impulse log that hit the link.
RECURSIVE CountOn(_, _)
CountOn(log, link) ==
    IF log = <<>> THEN 0
    ELSE (IF Head(log).link = link THEN 1 ELSE 0) + CountOn(Tail(log), link)

(***************************************************************************)
(* Skeleton build: createPhysicsBodies, createJoints, stabilizeJoints.     *)
(***************************************************************************)
\* PhysicsWorld.createDynamicBody: the damping of a new body.
NewBodyDamping == [lin |-> LINEAR_DAMPING, ang |-> ANGULAR_DAMPING]

\* Character.createJoints: the handles stored for build b when the joints in
\* failed could not be created (createRevoluteJoint returned null).
CreateJoints(b, failed) == [j \in Joints |-> IF j \in failed THEN Null ELSE b]

\* Character.stabilizeJoints, the motor part.  The body of the function is
\* one try block; dereferencing a null joint throws and ends the block.
\* StabilizeThrow is the place of the throw: 0 none, 1 right shoulder,
\* 2 left hip, 3 right hip, 4 left knee, 5 right knee.
StabilizeThrow(jts) ==
    IF jts["leftShoulder"] # Null /\ jts["rightShoulder"] = Null THEN 1
    ELSE IF jts["leftHip"] = Null THEN 2
    ELSE IF jts["rightHip"] = Null THEN 3
    ELSE IF jts["leftKnee"] = Null THEN 4
    ELSE IF jts["rightKnee"] = Null THEN 5
    ELSE 0

StabilizeMotors(jts) ==
    LET t == StabilizeThrow(jts)
        reached(n) == t = 0 \/ t > n
        hold(angle) == PositionHold(angle, INITIAL_STIFFNESS, INITIAL_DAMPING)
    IN  [j \in Joints |->
           IF j = "leftShoulder" /\ jts[j] # Null THEN hold(SHOULDER_REST_ANGLE)
           ELSE IF j = "rightShoulder" /\ jts["leftShoulder"] # Null /\ jts[j] # Null
                THEN hold(SHOULDER_REST_ANGLE)
           ELSE IF j = "leftHip" /\ reached(2) THEN hold(0)
           ELSE IF j = "rightHip" /\ reached(3) THEN hold(0)
           ELSE IF j = "leftKnee" /\ reached(4) THEN hold(STABILIZE_KNEE_ANGLE)
           ELSE IF j = "rightKnee" /\ reached(5) THEN hold(STABILIZE_KNEE_ANGLE)
           ELSE Unset]

\* Character.stabilizeJoints, the damping part (reached when nothing threw).
StabilizeDamping ==
    [l \in Links |->
        IF l = "torso"
        THEN [lin |-> INITIAL_TORSO_DAMPING, ang |-> INITIAL_TORSO_DAMPING]
        ELSE [lin |-> INITIAL_BODY_DAMPING, ang |-> INITIAL_BODY_DAMPING]]

\* The first relaxation timer that stabilizeJoints schedules for build b.
RelaxTimer(b) == [kind |-> "relax1", seq |-> b, rem |-> RELAX_DELAY]

\* The timer Game.start schedules.
StartImpulseTimer(b) == [kind |-> "startImpulse", seq |-> b, rem |-> START_IMPULSE_DELAY]

AllKeysUp == [k \in Keys |-> FALSE]

(***************************************************************************)
(* The state after `new Game(canvas)` and `await game.init()`: the first   *)
(* skeleton is built and stabilized, the main menu is shown.               *)
(***************************************************************************)
Init ==
    /\ gameState = "MainMenu"
    /\ maxDistance = 0
    /\ accumulator = 0
    /\ lastTimeAge = 0
    /\ animationFrameId = Null
    /\ rafPending = 0
    /\ pc = "idle"
    /\ panel = "mainMenu"
    /\ score = 0
    /\ keyState = AllKeysUp
    /\ impulseTimer = 0
    /\ lastTimestampAge = 0
    /\ bodies = [l \in Links |-> 1]
    /\ joints = CreateJoints(1, {})
    /\ worldBodies = {<<1, l>> : l \in Links}
    /\ worldJoints = {<<1, j>> : j \in Joints}
    /\ colliderGroups = GroundCollider @@ BodyColliders(1)
    /\ damping = StabilizeDamping
    /\ motor = StabilizeMotors(CreateJoints(1, {}))
    /\ pose = SpawnPose
    /\ timers = <<RelaxTimer(1)>>
    /\ builds = 1
    /\ sinceBuild = 0
    /\ gateSinceKick = impulseInterval
    /\ heldSteps = 0
    /\ heldKicks = 0
    /\ torsoImpulses = [up |-> 1, ang |-> 0]
    /\ last = [NoLast EXCEPT !.by = "build", !.seq = 1, !.damped = TRUE,
                            !.impulses = <<Impulse("torso", 0, 1500)>>,
                            !.ui = <<showMainMenu>>]

(***************************************************************************)
(* Character: the per-step controller.                                     *)
(***************************************************************************)
\* Character.disableJointMotor
disableJointMotor(m, jts, j) ==
    IF jts[j] = Null THEN m
    ELSE [m EXCEPT ![j] = VelocityDrive(0, DISABLE_MAX_FORCE)]

\* Character.applyJointMotor
applyJointMotor(m, jts, j, targetVelocity, maxForce) ==
    IF jts[j] = Null THEN m
    ELSE [m EXCEPT ![j] = VelocityDrive(targetVelocity, maxForce)]

\* A knee release that only disables the motor, as a hip release does.
releaseKnee_Disabled(m, jts, j) == disableJointMotor(m, jts, j)

\* Character.applyQWOPControls, the else branch of a knee key.
releaseKnee(m, jts, j) ==
    IF jts[j] # Null
    THEN [m EXCEPT ![j] = PositionHold(KNEE_REST_ANGLE, KNEE_STIFFNESS * 2,
                                       KNEE_DAMPING * 2)]
    ELSE disableJointMotor(m, jts, j)

\* Character.applyQWOPControls, a hip key (KeyQ, KeyW).
hipControl(m, jts, j, pressed) ==
    IF pressed
    THEN applyJointMotor(m, jts, j, MAX_MOTOR_VELOCITY, JOINT_MOTOR_MAX_FORCE)
    ELSE disableJointMotor(m, jts, j)

\* Character.applyQWOPControls, a knee key (KeyO, KeyP).
kneeControl(m, jts, j, pressed) ==
    IF pressed
    THEN applyJointMotor(m, jts, j, -MAX_MOTOR_VELOCITY, JOINT_MOTOR_MAX_FORCE)
    ELSE releaseKnee(m, jts, j)

\* Controls in which KeyQ drives both hips.
applyQWOPControls_Crossed(m, jts, ks) ==
    LET m1 == hipControl(m, jts, "leftHip", ks["KeyQ"])
        m2 == hipControl(m1, jts, "rightHip", ks["KeyQ"])
        m3 == kneeControl(m2, jts, "leftKnee", ks["KeyO"])
    IN  kneeControl(m3, jts, "rightKnee", ks["KeyP"])

\* Character.applyQWOPControls, the motor commands of the four keys in order.
applyQWOPControls(m, jts, ks) ==
    LET m1 == hipControl(m, jts, "leftHip", ks["KeyQ"])
        m2 == hipControl(m1, jts, "rightHip", ks["KeyW"])
        m3 == kneeControl(m2, jts, "leftKnee", ks["KeyO"])
    IN  kneeControl(m3, jts, "rightKnee", ks["KeyP"])

\* A direct impulse that does not look at the gate.
kick_Ungated(pressed, shouldApplyImpulse, link) ==
    IF pressed THEN <<Impulse(link, 100, 200)>> ELSE <<>>

\* Character.applyQWOPControls, the direct impulse of one key.
kick(pressed, shouldApplyImpulse, link) ==
    IF pressed /\ shouldApplyImpulse THEN <<Impulse(link, 100, 200)>> ELSE <<>>

\* Character.applyQWOPControls, the direct impulses of the four keys in order.
kickImpulses(ks, shouldApplyImpulse) ==
    kick(ks["KeyQ"], shouldApplyImpulse, "leftThigh")
    \o kick(ks["KeyW"], shouldApplyImpulse, "rightThigh")
    \o kick(ks["KeyO"], shouldApplyImpulse, "leftCalf")
    \o kick(ks["KeyP"], shouldApplyImpulse, "rightCalf")

\* Character.applyInputForces: shouldApplyImpulse.
shouldApplyImpulse(timer, deltaTime) == timer + deltaTime >= impulseInterval

\* An impulse timer that is never set back to 0.
nextImpulseTimer_NeverReset(timer, deltaTime) ==
    Min(timer + deltaTime, impulseInterval)

\* Character.applyInputForces: impulseTimer after the step.
nextImpulseTimer(timer, deltaTime) ==
    IF shouldApplyImpulse(timer, deltaTime) THEN 0 ELSE timer + deltaTime

\* A target angle without the angular-velocity term.
armTargetAngle_NoPrediction(p) ==
    counterbalanceStrength * p.rot + SHOULDER_REST_ANGLE

\* Character.applyArmBalancing: the target angle of both shoulders.
armTargetAngle(p) ==
    counterbalanceStrength * p.rot + predictiveStrength * p.angvel
    + SHOULDER_REST_ANGLE

\* A guard that looks at the left shoulder only.
canBalance_LeftOnly(jts) == jts["leftShoulder"] # Null

\* Character.applyArmBalancing: its guard.
canBalance(jts) == jts["leftShoulder"] # Null /\ jts["rightShoulder"] # Null

\* Character.applyArmBalancing: the shoulder motors.
applyArmBalancing(m, jts, p) ==
    IF ~canBalance(jts) THEN m
    ELSE LET hold == PositionHold(armTargetAngle(p), SHOULDER_STIFFNESS * 2,
                                  (SHOULDER_DAMPING * 3) \div 2)
         IN  [m EXCEPT !["leftShoulder"] = hold, !["rightShoulder"] = hold]

\* An arm swing whose first comparison also takes equal offsets.
swingImpulses_TieSwings(jts, p, timer) ==
    LET swing == timer = 0
        leftRel == p.leftThighX - p.x
        rightRel == p.rightThighX - p.x
    IN  IF ~canBalance(jts) THEN <<>>
        ELSE IF leftRel >= rightRel /\ swing
             THEN <<Impulse("rightArm", 100, 0), Impulse("leftArm", -50, 0)>>
        ELSE IF rightRel > leftRel /\ swing
             THEN <<Impulse("leftArm", 100, 0), Impulse("rightArm", -50, 0)>>
        ELSE <<>>

\* Character.applyArmBalancing: the arm-swing impulses; timer is
\* this.impulseTimer as applyInputForces left it.
swingImpulses(jts, p, timer) ==
    LET swing == timer = 0
        leftRel == p.leftThighX - p.x
        rightRel == p.rightThighX - p.x
    IN  IF ~canBalance(jts) THEN <<>>
        ELSE IF leftRel > rightRel /\ swing
             THEN <<Impulse("rightArm", 100, 0), Impulse("leftArm", -50, 0)>>
        ELSE IF rightRel > leftRel /\ swing
             THEN <<Impulse("leftArm", 100, 0), Impulse("rightArm", -50, 0)>>
        ELSE <<>>

\* Character.applyInputForces: the guard on the hip and knee joints.
canControl(jts) ==
    /\ jts["leftHip"] # Null
    /\ jts["rightHip"] # Null
    /\ jts["leftKnee"] # Null
    /\ jts["rightKnee"] # Null

\* UI.updateScore: the number shown, in tenths.
formattedDistance(distance) == distance \div 100

\* The window of the 500 ms hold scenario, in update steps.
HoldSteps == (500 * 300) \div (1000 * FIXED_TIMESTEP)

(***************************************************************************)
(* Inputs of the model.                                                    *)
(***************************************************************************)
\* The moments at which the player presses the start or restart button, as
\* time since the previous skeleton build: 50 ms, 600 ms, or any time
\* from 1.1 s on.
StartDelays == {15, 180, 330}
SinceBuildCap == CHOOSE d \in StartDelays : \A e \in StartDelays : e <= d

Held == {k \in Keys : keyState[k]}

(***************************************************************************)
(* Time passes: one display refresh (1/60 s).  A timer that is due fires   *)
(* before time moves on, and a scheduled gameLoop callback is not delayed  *)
(* by more than MaxFrameGap refreshes.                                     *)
(***************************************************************************)
Tick ==
    /\ pc = "idle"
    /\ \A i \in DOMAIN timers : timers[i].rem > 0
    /\ rafPending > 0 => lastTimeAge < MaxFrameGap * FIXED_TIMESTEP
    /\ timers' = [i \in DOMAIN timers |->
                    [timers[i] EXCEPT !.rem = @ - FIXED_TIMESTEP]]
    /\ lastTimeAge' = IF rafPending > 0 THEN lastTimeAge + FIXED_TIMESTEP
                      ELSE lastTimeAge
    /\ lastTimestampAge' = Min(lastTimestampAge + FIXED_TIMESTEP, impulseInterval)
    /\ sinceBuild' = Min(sinceBuild + FIXED_TIMESTEP, SinceBuildCap)
    /\ last' = NoLast
    /\ UNCHANGED <<gameState, maxDistance, accumulator, animationFrameId,
                   rafPending, pc, panel, score, keyState, impulseTimer,
                   bodies, joints, worldBodies, worldJoints,
                   colliderGroups, torsoImpulses, damping, motor,
                   pose, builds, gateSinceKick, heldSteps, heldKicks>>

(***************************************************************************)
(* InputHandler: the keydown and keyup listeners.  The model lets the      *)
(* player touch the keys only while a run is on: outside a run keyState is *)
(* never read (Game.update returns first) and Game.start clears it.        *)
(***************************************************************************)
KeyDown(k) ==
    /\ pc = "idle"
    /\ gameState = "Playing"
    /\ ~keyState[k]
    /\ Cardinality(Held) < MaxHeld
    /\ keyState' = [keyState EXCEPT ![k] = TRUE]
    /\ last' = NoLast
    /\ UNCHANGED <<gameState, maxDistance, accumulator, lastTimeAge,
                   animationFrameId, rafPending, pc, panel, score,
                   impulseTimer, lastTimestampAge, bodies, joints,
                   worldBodies, worldJoints,
                   colliderGroups, torsoImpulses, damping, motor, pose, timers,
                   builds, sinceBuild, gateSinceKick, heldSteps, heldKicks>>

KeyUp(k) ==
    /\ pc = "idle"
    /\ gameState = "Playing"
    /\ keyState[k]
    /\ keyState' = [keyState EXCEPT ![k] = FALSE]
    /\ last' = NoLast
    /\ UNCHANGED <<gameState, maxDistance, accumulator, lastTimeAge,
                   animationFrameId, rafPending, pc, panel, score,
                   impulseTimer, lastTimestampAge, bodies, joints,
                   worldBodies, worldJoints,
                   colliderGroups, torsoImpulses, damping, motor, pose, timers,
                   builds, sinceBuild, gateSinceKick, heldSteps, heldKicks>>

(***************************************************************************)
(* setTimeout callbacks.  The browser runs the due timer that was created  *)
(* first.  The callbacks act on this.bodies as it is when they run.        *)
(***************************************************************************)
Due == {i \in DOMAIN timers : timers[i].rem <= 0}
FirstDue == CHOOSE i \in Due : \A k \in Due : i <= k
Without(q, i) == SubSeq(q, 1, i - 1) \o SubSeq(q, i + 1, Len(q))

\* Character.stabilizeJoints: the damping the first timer sets.
RelaxingDamping ==
    [l \in Links |-> [lin |-> RELAXING_DAMPING, ang |-> RELAXING_DAMPING]]

\* Character.stabilizeJoints: the damping the second timer sets.
NormalDamping == [l \in Links |-> NewBodyDamping]

\* Character.stabilizeJoints: the outer timer, after 500 ms.
RelaxFirst(t) ==
    /\ damping' = RelaxingDamping
    /\ timers' = Append(Without(timers, FirstDue),
                        [kind |-> "relax2", seq |-> t.seq, rem |-> RELAX_DELAY])
    /\ torsoImpulses' = torsoImpulses
    /\ last' = [NoLast EXCEPT !.by = "timer", !.seq = t.seq, !.damped = TRUE]

\* Character.stabilizeJoints: the inner timer, after another 500 ms.
RelaxSecond(t) ==
    /\ damping' = NormalDamping
    /\ timers' = Without(timers, FirstDue)
    /\ torsoImpulses' = torsoImpulses
    /\ last' = [NoLast EXCEPT !.by = "timer", !.seq = t.seq, !.damped = TRUE]

\* Game.start: the timer that pushes the torso after 100 ms.
StartImpulse(t) ==
    /\ damping' = damping
    /\ timers' = Without(timers, FirstDue)
    /\ torsoImpulses' = [up |-> torsoImpulses.up + 1,
                         ang |-> torsoImpulses.ang + 1]
    /\ last' = [NoLast EXCEPT !.by = "timer", !.seq = t.seq,
                   !.impulses = <<Impulse("torso", 0, 1000),
                                  AngularImpulse("torso", -100)>>]

TimerFire ==
    /\ pc = "idle"
    /\ Due # {}
    /\ LET t == timers[FirstDue]
       IN  CASE t.kind = "relax1" -> RelaxFirst(t)
             [] t.kind = "relax2" -> RelaxSecond(t)
             [] t.kind = "startImpulse" -> StartImpulse(t)
    /\ UNCHANGED <<gameState, maxDistance, accumulator, lastTimeAge,
                   animationFrameId, rafPending, pc, panel, score, keyState,
                   impulseTimer, lastTimestampAge, bodies, joints,
                   worldBodies, worldJoints,
                   colliderGroups, motor, pose, builds, sinceBuild,
                   gateSinceKick, heldSteps, heldKicks>>

(***************************************************************************)
(* Game.start (and Game.restart, which calls it).  Character.reset builds  *)
(* a new skeleton; the call of gameLoop at the end of start enters the     *)
(* loop with deltaTime 0.                                                  *)
(***************************************************************************)
\* A start() that leaves the pending request in place.
CancelAnimationFrame_Skipped(pending, id) == pending

\* cancelAnimationFrame(this.animationFrameId), guarded by the id.
CancelAnimationFrame(pending, id) ==
    IF id # Null /\ pending > 0 THEN pending - 1 ELSE pending

\* A rebuild that keeps the pose and the velocities of the old skeleton.
RebuiltPose_Kept(p) == p

\* Character.createPhysicsBodies and the velocity loop of Character.reset:
\* the pose of the new skeleton, whatever the pose p of the old one was.
RebuiltPose(p) == SpawnPose

\* Character.reset, for the build b with the joints in failed not created.
Reset(b, failed) ==
    LET jts == CreateJoints(b, failed)
        done == StabilizeThrow(jts) = 0
    IN  /\ bodies' = [l \in Links |-> b]
        /\ worldBodies' = worldBodies \cup {<<b, l>> : l \in Links}
        /\ joints' = jts
        /\ worldJoints' = worldJoints \cup {<<b, j>> : j \in Joints \ failed}
        /\ colliderGroups' = colliderGroups @@ BodyColliders(b)
        /\ motor' = StabilizeMotors(jts)
        /\ damping' = IF done THEN StabilizeDamping ELSE NormalDamping
        /\ pose' = RebuiltPose(pose)
        /\ torsoImpulses' = [up |-> IF done THEN 1 ELSE 0, ang |-> 0]
        /\ timers' = (IF done THEN Append(timers, RelaxTimer(b)) ELSE timers)
                     \o <<StartImpulseTimer(b)>>
        /\ last' = [NoLast EXCEPT !.by = "build", !.seq = b, !.damped = done,
                       !.moved = pose # SpawnPose,
                       !.ui = <<showGameUI, updateScore(0)>>,
                       !.impulses = IF done THEN <<Impulse("torso", 0, 1500)>>
                                    ELSE <<>>]

StartWith(failed) ==
    /\ pc = "idle"
    /\ builds < MaxBuilds
    /\ sinceBuild \in StartDelays
    /\ gameState' = "Playing"
    /\ maxDistance' = 0
    /\ Reset(builds + 1, failed)
    /\ builds' = builds + 1
    /\ sinceBuild' = 0
    /\ keyState' = AllKeysUp
    /\ panel' = "gameUI"
    /\ score' = formattedDistance(0)
    /\ lastTimeAge' = 0
    /\ rafPending' = CancelAnimationFrame(rafPending, animationFrameId)
    /\ pc' = "loop"
    /\ heldSteps' = 0
    /\ heldKicks' = 0
    /\ UNCHANGED <<accumulator, animationFrameId, impulseTimer,
                   lastTimestampAge, gateSinceKick>>

\* start() when the engine creates every joint.
Start == StartWith({})

\* start() when createRevoluteJoint returns null for one joint; the model
\* follows the run on the first skeleton that misses a joint.
StartJointFailed ==
    /\ \A j \in Joints : joints[j] # Null
    /\ \E j \in Joints : StartWith({j})

(***************************************************************************)
(* Game.gameLoop as a requestAnimationFrame callback: the part before the  *)
(* while loop.  The callback runs at a display refresh after the one that  *)
(* requested it.                                                           *)
(***************************************************************************)
FrameStart ==
    /\ pc = "idle"
    /\ rafPending > 0
    /\ lastTimeAge > 0
    /\ accumulator' = accumulator + lastTimeAge
    /\ lastTimeAge' = 0
    /\ rafPending' = rafPending - 1
    /\ pc' = "loop"
    /\ last' = NoLast
    /\ UNCHANGED <<gameState, maxDistance, animationFrameId, panel, score,
                   keyState, impulseTimer, lastTimestampAge, bodies, joints,
                   worldBodies, worldJoints,
                   colliderGroups, torsoImpulses, damping, motor, pose, timers,
                   builds, sinceBuild, gateSinceKick, heldSteps, heldKicks>>

(***************************************************************************)
(* Game.gameLoop: one iteration of the while loop, a call of Game.update.  *)
(* No other handler runs between the iterations of one gameLoop call.      *)
(***************************************************************************)
\* The iterations that the while loop of this gameLoop call has run, and the
\* accumulator with which the call entered the loop.
loopSteps == IF last.by \in {"update", "skip"} THEN last.step ELSE 0
loopEntered == IF last.by \in {"update", "skip"} THEN last.entered
               ELSE accumulator

\* Game.update when gameState is not Playing.
UpdateNotPlaying ==
    /\ gameState # "Playing"
    /\ last' = [NoLast EXCEPT !.by = "skip", !.step = loopSteps + 1,
                              !.entered = loopEntered]
    /\ UNCHANGED <<gameState, maxDistance, panel, score, impulseTimer,
                   lastTimestampAge, motor, pose, gateSinceKick, heldSteps,
                   heldKicks>>

\* A comparison that also takes a distance equal to the maximum.
scoreImproved_OrEqual(x, maxDist) == x >= maxDist

\* Game.update: the condition under which the score is updated.
scoreImproved(x, maxDist) == x > maxDist

\* Game.update from physics.step() on: the world step, which leaves the
\* skeleton in pose p, the game-over check and the score; rec is the record
\* of what the step did before.
StepAndScore(rec, p) ==
    /\ pose' = p
    /\ IF isHeadTouchingGround(p)
       THEN /\ gameState' = "GameOver"
            /\ panel' = "gameOver"
            /\ score' = score
            /\ maxDistance' = maxDistance
            /\ last' = [rec EXCEPT !.ui = <<showGameOver(maxDistance)>>]
       ELSE /\ gameState' = gameState
            /\ panel' = panel
            /\ IF scoreImproved(p.x, maxDistance)
               THEN /\ maxDistance' = p.x
                    /\ score' = formattedDistance(p.x)
                    /\ last' = [rec EXCEPT !.ui = <<updateScore(p.x)>>]
               ELSE /\ maxDistance' = maxDistance
                    /\ score' = score
                    /\ last' = rec

\* Game.update when applyInputForces returns at its guard.
UpdateNoControl ==
    /\ gameState = "Playing"
    /\ ~canControl(joints)
    /\ \E after \in PhysicsStep(pose) :
          StepAndScore([NoLast EXCEPT !.by = "skip", !.playing = TRUE,
                                      !.step = loopSteps + 1,
                                      !.entered = loopEntered], after)
    /\ UNCHANGED <<impulseTimer, lastTimestampAge, motor, gateSinceKick,
                   heldSteps, heldKicks>>

\* A balance controller that is run after the world step of the update.
balancePose_AfterStep(before, after) == after

\* Game.update calls applyInputForces, and with it applyArmBalancing, before
\* physics.step(): of the poses before and after the world step of the
\* update, the one that the balance controller reads.
balancePose(before, after) == before

\* Game.update with the whole of applyInputForces.
UpdateControl ==
    /\ gameState = "Playing"
    /\ canControl(joints)
    /\ LET deltaTime == lastTimestampAge
           fired == shouldApplyImpulse(impulseTimer, deltaTime)
           timer == nextImpulseTimer(impulseTimer, deltaTime)
           kicks == kickImpulses(keyState, fired)
           gap == Min(gateSinceKick + deltaTime, impulseInterval)
           counting == heldSteps >= 0 /\ heldSteps < HoldSteps
           closed == heldSteps >= HoldSteps
       IN  /\ impulseTimer' = timer
           /\ lastTimestampAge' = 0
           /\ gateSinceKick' = IF kicks # <<>> THEN 0 ELSE gap
           /\ heldSteps' = IF closed THEN -1
                           ELSE IF ~counting THEN heldSteps
                           ELSE IF keyState["KeyQ"] THEN heldSteps + 1
                           ELSE -1
           /\ heldKicks' = IF closed THEN 0
                           ELSE IF ~counting THEN heldKicks
                           ELSE IF keyState["KeyQ"]
                                THEN heldKicks + CountOn(kicks, "leftThigh")
                           ELSE 0
           /\ \E after \in PhysicsStep(pose) :
                 LET read == balancePose(pose, after)
                 IN  /\ motor' = applyArmBalancing(
                                     applyQWOPControls(motor, joints, keyState),
                                     joints, read)
                     /\ StepAndScore(
                            [by |-> "update", playing |-> TRUE,
                             fired |-> fired, delta |-> deltaTime,
                             gap |-> gap,
                             gateTime |-> impulseTimer + deltaTime,
                             impulses |->
                                 kicks \o swingImpulses(joints, read, timer),
                             seq |-> 0, damped |-> FALSE, theta |-> read.rot,
                             omega |-> read.angvel, moved |-> FALSE,
                             ui |-> <<>>,
                             leftRel |-> read.leftThighX - read.x,
                             rightRel |-> read.rightThighX - read.x,
                             step |-> loopSteps + 1, entered |-> loopEntered],
                            after)

\* One iteration of the while loop around the call Game.update().
LoopIteration(update) ==
    /\ pc = "loop"
    /\ accumulator >= FIXED_TIMESTEP
    /\ accumulator' = accumulator - FIXED_TIMESTEP
    /\ update
    /\ UNCHANGED <<lastTimeAge, animationFrameId, rafPending, pc, keyState,
                   bodies, joints, worldBodies, worldJoints,
                   colliderGroups, torsoImpulses, damping, timers,
                   builds, sinceBuild>>

UpdateStep == LoopIteration(UpdateNotPlaying \/ UpdateControl)

\* The iteration when a hip or knee joint of the skeleton is missing.
UpdateStepJointFailed == LoopIteration(UpdateNoControl)

(***************************************************************************)
(* Game.gameLoop: after the while loop, render and request the next frame. *)
(***************************************************************************)
FrameEnd ==
    /\ pc = "loop"
    /\ accumulator < FIXED_TIMESTEP
    /\ rafPending' = rafPending + 1
    /\ animationFrameId' = 1
    /\ pc' = "idle"
    /\ last' = NoLast
    /\ UNCHANGED <<gameState, maxDistance, accumulator, lastTimeAge, panel,
                   score, keyState, impulseTimer, lastTimestampAge, bodies,
                   joints, worldBodies, worldJoints,
                   colliderGroups, torsoImpulses, damping, motor, pose,
                   timers, builds, sinceBuild, gateSinceKick, heldSteps,
                   heldKicks>>

Next ==
    \/ Tick
    \/ \E k \in Keys : KeyDown(k)
    \/ \E k \in Keys : KeyUp(k)
    \/ TimerFire
    \/ Start
    \/ FrameStart
    \/ UpdateStep
    \/ FrameEnd

\* The program when the engine creates every joint it is asked for.
Spec == Init /\ [][Next]_vars

(***************************************************************************)
(* The per-step controller and the fall detector, input by input.  The     *)
(* initial states are states in the middle of a run, more than a second    *)
(* after start(): gameLoop has been called for a frame that came 33 ms     *)
(* after the last one and is about to run two update steps; the player     *)
(* holds any of the keys, the engine reports any of the sampled poses in   *)
(* which the head is off the ground, and the joints are as the last update *)
(* step, with no key down, left them.                                      *)
(***************************************************************************)
InitController ==
    /\ gameState = "Playing"
    /\ maxDistance = 0
    /\ accumulator = 2 * FIXED_TIMESTEP
    /\ lastTimeAge = 0
    /\ animationFrameId = 1
    /\ rafPending = 0
    /\ pc = "loop"
    /\ panel = "gameUI"
    /\ score = formattedDistance(0)
    /\ keyState \in [Keys -> BOOLEAN]
    /\ impulseTimer \in {0, 3 * FIXED_TIMESTEP}
    /\ lastTimestampAge = 2 * FIXED_TIMESTEP
    /\ bodies = [l \in Links |-> 2]
    /\ joints = CreateJoints(2, {})
    /\ worldBodies = {<<b, l>> : b \in {1, 2}, l \in Links}
    /\ worldJoints = {<<b, j>> : b \in {1, 2}, j \in Joints}
    /\ colliderGroups = GroundCollider @@ BodyColliders(1) @@ BodyColliders(2)
    /\ damping = NormalDamping
    /\ motor = applyArmBalancing(
                   applyQWOPControls(StabilizeMotors(CreateJoints(2, {})),
                                     CreateJoints(2, {}), AllKeysUp),
                   CreateJoints(2, {}), SpawnPose)
    /\ pose \in {p \in SampledPoses : ~isHeadTouchingGround(p)}
    /\ timers = <<>>
    /\ builds = 2
    /\ sinceBuild = SinceBuildCap
    /\ gateSinceKick = impulseInterval
    /\ heldSteps = -1
    /\ heldKicks = 0
    /\ torsoImpulses = [up |-> 2, ang |-> 1]
    /\ last = NoLast

NextController ==
    \/ UpdateStep
    \/ FrameEnd

SpecController == InitController /\ [][NextController]_vars

\* The program when the creation of a joint fails during start().
NextJointFailed ==
    \/ Tick
    \/ \E k \in Keys : KeyDown(k)
    \/ \E k \in Keys : KeyUp(k)
    \/ TimerFire
    \/ StartJointFailed
    \/ FrameStart
    \/ UpdateStep
    \/ UpdateStepJointFailed
    \/ FrameEnd

SpecJointFailed == Init /\ [][NextJointFailed]_vars

(***************************************************************************)
(* The stabilization sequence to its end.  The player presses start and    *)
(* restart but no control key (the keys reach neither the dampings nor the *)
(* timers).  The browser keeps going: time passes, a timer that is due     *)
(* fires, a requested animation frame is delivered, and a gameLoop call    *)
(* that has begun runs its update steps and returns.  Nothing obliges the  *)
(* player to press start.                                                  *)
(***************************************************************************)
NextStabilization ==
    \/ Tick
    \/ TimerFire
    \/ Start
    \/ FrameStart
    \/ UpdateStep
    \/ FrameEnd

BrowserKeepsGoing ==
    /\ WF_vars(Tick)
    /\ WF_vars(TimerFire)
    /\ WF_vars(FrameStart)
    /\ WF_vars(UpdateStep)
    /\ WF_vars(FrameEnd)

SpecStabilization ==
    Init /\ [][NextStabilization]_vars /\ BrowserKeepsGoing

(***************************************************************************)
(* The game loop on a display whose refresh period is not the fixed        *)
(* timestep.  The initial states are states in the middle of a run, more   *)
(* than a second after start(): a gameLoop callback is pending, the        *)
(* previous call has left any remainder below one timestep in the          *)
(* accumulator, and the time since that call is one of FrameGaps (1/144 s, *)
(* 1/75 s, 1/60 s, or a late frame).  The player presses restart but no    *)
(* control key.                                                            *)
(***************************************************************************)
FrameGaps == {2, 4, 5, 7}

InitFrames ==
    /\ gameState = "Playing"
    /\ maxDistance = 0
    /\ accumulator \in 0 .. (FIXED_TIMESTEP - 1)
    /\ lastTimeAge \in FrameGaps
    /\ animationFrameId = 1
    /\ rafPending = 1
    /\ pc = "idle"
    /\ panel = "gameUI"
    /\ score = formattedDistance(0)
    /\ keyState = AllKeysUp
    /\ impulseTimer = 0
    /\ lastTimestampAge = lastTimeAge
    /\ bodies = [l \in Links |-> 2]
    /\ joints = CreateJoints(2, {})
    /\ worldBodies = {<<b, l>> : b \in {1, 2}, l \in Links}
    /\ worldJoints = {<<b, j>> : b \in {1, 2}, j \in Joints}
    /\ colliderGroups = GroundCollider @@ BodyColliders(1) @@ BodyColliders(2)
    /\ damping = NormalDamping
    /\ motor = applyArmBalancing(
                   applyQWOPControls(StabilizeMotors(CreateJoints(2, {})),
                                     CreateJoints(2, {}), AllKeysUp),
                   CreateJoints(2, {}), SpawnPose)
    /\ pose = SpawnPose
    /\ timers = <<>>
    /\ builds = 2
    /\ sinceBuild = SinceBuildCap
    /\ gateSinceKick = impulseInterval
    /\ heldSteps = -1
    /\ heldKicks = 0
    /\ torsoImpulses = [up |-> 2, ang |-> 1]
    /\ last = NoLast

SpecFrames == InitFrames /\ [][NextStabilization]_vars

(***************************************************************************)
(* Properties.                                                             *)
(***************************************************************************)
\* The limbs that receive kick impulses, and the kicks of the last step.
Limbs == {"leftThigh", "rightThigh", "leftCalf", "rightCalf"}
HipKeys == {"KeyQ", "KeyW"}
ThighOf(k) == IF k = "KeyQ" THEN "leftThigh" ELSE "rightThigh"
KickedLimbs == {l \in Limbs : CountOn(last.impulses, l) > 0}
KicksOn(link) == SelectSeq(last.impulses, LAMBDA i : i.link = link)

\* StabilizationPhase, read off the damping of the links.
Phase(d) ==
    IF d = StabilizeDamping THEN "Initial"
    ELSE IF d = RelaxingDamping THEN "Relaxing"
    ELSE "Normal"
PhaseRank(ph) ==
    IF ph = "Initial" THEN 0 ELSE IF ph = "Relaxing" THEN 1 ELSE 2

\* C1: every damping change that the links of the current skeleton receive
\* comes from the stabilization sequence started by the build of that
\* skeleton, never from the sequence of an earlier init() or reset().
C1_DampingFromOwnBuild ==
    last.damped => last.seq = bodies["torso"]

\* C2: the physics world contains exactly the 9 links and the 8 joints of
\* the most recent build and nothing that an earlier build created.
C2_WorldHoldsLatestBuildOnly ==
    /\ worldBodies = {<<bodies[l], l>> : l \in Links}
    /\ worldJoints = {<<joints[j], j>> : j \in Joints}
    /\ Cardinality(worldBodies) = 9
    /\ Cardinality(worldJoints) = 8

\* C3: as long as no reset happens, StabilizationPhase only moves forward:
\* Initial, then Relaxing, then Normal, never back.
C3_PhaseNeverRegresses ==
    [][builds' = builds =>
          PhaseRank(Phase(damping')) >= PhaseRank(Phase(damping))]_vars

\* C4: a reset discards the ImpulseGate state: right after Character.reset()
\* the gate timer is zero, and time from before the reset does not count
\* towards the first kick after it, so with KeyQ held from the start of the
\* run no kick lands before 80 ms of update steps have been run.
C4_ResetDiscardsGate ==
    /\ (last.by = "build" /\ builds > 1) => impulseTimer = 0
    /\ (/\ last.by = "update"
        /\ heldSteps >= 1
        /\ CountOn(last.impulses, "leftThigh") > 0)
       => heldSteps * FIXED_TIMESTEP >= impulseInterval

\* C5: holding KeyQ for 500 ms of fixed 60 Hz update steps (30 steps)
\* produces exactly 6 kicks on the left thigh.
C5_HoldGivesSixKicks ==
    heldSteps = HoldSteps => heldKicks = 6

\* C6: two consecutive kicks on a limb are at least 80 ms of gate time
\* apart.  The gate is shared, so the property is stated for a kick on any
\* limb after a kick on any limb, which is stronger.
C6_KicksAnIntervalApart ==
    (last.by = "update" /\ KickedLimbs # {}) => last.gap >= impulseInterval

\* A kick on the left thigh that is not the first one of the run.
C6_Witness ==
    /\ last.by = "update"
    /\ "leftThigh" \in KickedLimbs
    /\ heldKicks >= 2
    /\ last.gap >= impulseInterval

\* C7 as stated: on a step where a hip key is down and no limb was kicked
\* during the preceding 80 ms, the thigh gets exactly one impulse (0.1, 0.2)
\* and the gate closes; and the gate is closed only by a kick.
C7_OpenGateKicks ==
    last.by = "update" =>
        /\ \A k \in HipKeys :
              (keyState[k] /\ last.gap >= impulseInterval)
              => /\ KicksOn(ThighOf(k)) = <<Impulse(ThighOf(k), 100, 200)>>
                 /\ impulseTimer = 0
        /\ (last.gateTime >= impulseInterval /\ impulseTimer = 0)
           => KickedLimbs # {}

\* C7 as the code has it: on a step of the controller the thigh of a hip key
\* gets exactly one impulse (0.1, 0.2) when the key is down and the shared
\* timer has reached 80 ms on this step, and no impulse otherwise; the timer
\* goes back to 0 on every step on which it has reached 80 ms, whether a key
\* is down or not, and on no other step.
C7_TimerGatesKicks ==
    last.by = "update" =>
        /\ \A k \in HipKeys :
              KicksOn(ThighOf(k)) =
                  IF keyState[k] /\ last.gateTime >= impulseInterval
                  THEN <<Impulse(ThighOf(k), 100, 200)>>
                  ELSE <<>>
        /\ impulseTimer =
              IF last.gateTime >= impulseInterval THEN 0 ELSE last.gateTime

\* KeyQ is down on a step on which the timer has reached 80 ms.
C7_Witness ==
    /\ last.by = "update"
    /\ keyState["KeyQ"]
    /\ last.gateTime >= impulseInterval
    /\ KicksOn("leftThigh") = <<Impulse("leftThigh", 100, 200)>>
    /\ impulseTimer = 0

\* C8: every update step advances the ImpulseGate timer by exactly one
\* fixed timestep, however much wall-clock time passed between the calls.
C8_GateAdvancesByFixedStep ==
    last.by = "update" => last.delta = FIXED_TIMESTEP

\* C9: links and joints are mutated only inside an update step or a
\* synchronous reset; no asynchronous callback changes a damping or applies
\* an impulse between the steps.
C9_NoMutationBetweenTicks ==
    last.by = "timer" => (~last.damped /\ last.impulses = <<>>)

\* C10: after an update step of the controller in the Playing state, a hip
\* whose key is up is Disabled (velocity motor with target 0 and the minimal
\* force 0.1, no spring) and a knee whose key is up is in
\* PositionHold(-0.05, 2 x KNEE.STIFFNESS, 2 x KNEE.DAMPING).
C10_ReleaseResponse ==
    (last.by = "update" /\ last.playing) =>
        /\ ~keyState["KeyQ"] => motor["leftHip"] = VelocityDrive(0, 100)
        /\ ~keyState["KeyW"] => motor["rightHip"] = VelocityDrive(0, 100)
        /\ ~keyState["KeyO"] => motor["leftKnee"] = PositionHold(-50, 20000, 2000)
        /\ ~keyState["KeyP"] => motor["rightKnee"] = PositionHold(-50, 20000, 2000)

\* The first update step after a key was let go: no key is down, a limb was
\* kicked less than 80 ms ago, and hips and knees are in the release state.
C10_Witness ==
    /\ last.by = "update"
    /\ last.playing
    /\ Held = {}
    /\ last.gap < impulseInterval
    /\ motor["leftHip"] = VelocityDrive(0, 100)
    /\ motor["leftKnee"] = PositionHold(-50, 20000, 2000)

\* C11: after an update step of the controller in the Playing state, the
\* hip of an active hip input is in VelocityDrive(+MAX_MOTOR_VELOCITY,
\* JOINT_MOTOR_MAX_FORCE) and the knee of an active knee input is in
\* VelocityDrive(-MAX_MOTOR_VELOCITY, JOINT_MOTOR_MAX_FORCE); an input does
\* not change another joint: a hip or knee whose own input is inactive is in
\* its release state whatever the other inputs are, and the ankles are as
\* the build left them.
C11_ActiveInputDrivesOwnJoint ==
    (last.by = "update" /\ last.playing) =>
        /\ motor["leftHip"] = IF keyState["KeyQ"]
                              THEN VelocityDrive(20000, 100000)
                              ELSE VelocityDrive(0, 100)
        /\ motor["rightHip"] = IF keyState["KeyW"]
                               THEN VelocityDrive(20000, 100000)
                               ELSE VelocityDrive(0, 100)
        /\ motor["leftKnee"] = IF keyState["KeyO"]
                               THEN VelocityDrive(-20000, 100000)
                               ELSE PositionHold(-50, 20000, 2000)
        /\ motor["rightKnee"] = IF keyState["KeyP"]
                                THEN VelocityDrive(-20000, 100000)
                                ELSE PositionHold(-50, 20000, 2000)
        /\ motor["leftAnkle"] = Unset
        /\ motor["rightAnkle"] = Unset

\* An update step with KeyW and KeyO down and KeyQ and KeyP up.
C11_Witness ==
    /\ last.by = "update"
    /\ last.playing
    /\ Held = {"KeyW", "KeyO"}
    /\ motor["rightHip"] = VelocityDrive(20000, 100000)
    /\ motor["leftKnee"] = VelocityDrive(-20000, 100000)
    /\ motor["leftHip"] = VelocityDrive(0, 100)

\* C12: in every state after init() each of the 8 joints has a MotorState
\* that a configureMotor call has assigned (Disabled, VelocityDrive or
\* PositionHold); no joint is without one.
C12_EveryJointHasMotorState ==
    \A j \in Joints : motor[j].mode \in {"velocity", "position"}

\* The joint of a control key, and the motor states the controller gives it
\* when the key is down and when it is up.
JointOf(k) ==
    CASE k = "KeyQ" -> "leftHip"
      [] k = "KeyW" -> "rightHip"
      [] k = "KeyO" -> "leftKnee"
      [] k = "KeyP" -> "rightKnee"
DriveOf(k) ==
    IF k \in HipKeys THEN VelocityDrive(20000, 100000)
    ELSE VelocityDrive(-20000, 100000)
ReleaseOf(k) ==
    IF k \in HipKeys THEN VelocityDrive(0, 100)
    ELSE PositionHold(-50, 20000, 2000)
MissingJoints == {j \in Joints : joints[j] = Null}

\* C13: when exactly one hip or knee joint of the skeleton is missing, every
\* update step in the Playing state still gives each other hip and knee the
\* motor command of its own input and gives both shoulders the balance
\* PositionHold.
C13_OtherLimbsStillRespond ==
    (/\ last.by \in {"update", "skip"}
     /\ last.playing
     /\ Cardinality(MissingJoints) = 1
     /\ MissingJoints \subseteq {JointOf(k) : k \in Keys})
    => /\ \A k \in Keys :
             joints[JointOf(k)] # Null
             => motor[JointOf(k)] = IF keyState[k] THEN DriveOf(k)
                                    ELSE ReleaseOf(k)
       /\ \A j \in {"leftShoulder", "rightShoulder"} :
             /\ motor[j].mode = "position"
             /\ motor[j].b = 16000
             /\ motor[j].c = 1800

\* C14: the per-step controller never acts on a joint whose creation failed:
\* the motor state of a missing joint stays as the failed creation left it
\* (no configureMotor call is made on the null handle, which would throw),
\* for every sequence of keys.
C14_MissingJointUntouched ==
    \A j \in Joints : joints[j] = Null => motor[j] = Unset

\* An update step of the controller on a skeleton whose right shoulder is
\* missing, with a key down.
C14_Witness ==
    /\ last.by = "update"
    /\ joints["rightShoulder"] = Null
    /\ motor["rightShoulder"] = Unset
    /\ Held # {}

\* C15: when one joint is missing at a build, stabilizeJoints still puts the
\* other shoulders, hips and knees into the stabilization PositionHold, sets
\* the elevated damping on every link, gives the torso the upward impulse
\* and schedules the relaxation timers.
C15_StabilizationAbsorbsFailure ==
    (last.by = "build" /\ Cardinality(MissingJoints) = 1)
    => /\ \A j \in Joints \ {"leftAnkle", "rightAnkle"} :
             joints[j] # Null
             => /\ motor[j].mode = "position"
                /\ motor[j].b = 35000
                /\ motor[j].c = 3000
       /\ damping = StabilizeDamping
       /\ CountOn(last.impulses, "torso") = 1
       /\ \E i \in DOMAIN timers :
             timers[i].kind = "relax1" /\ timers[i].seq = builds

\* C16: after an update step of the controller in the Playing state, whatever
\* the keys are, both shoulders are in PositionHold with the same target
\* -3.0 * theta - 2.0 * omega + SHOULDER.REST_ANGLE, where theta and omega
\* are the torso rotation and angular velocity the controller read, with
\* stiffness 2 x SHOULDER.STIFFNESS and damping 1.5 x SHOULDER.DAMPING.
C16_ShouldersGetBalanceTarget ==
    (last.by = "update" /\ last.playing) =>
        /\ motor["leftShoulder"] =
              PositionHold(-3 * last.theta - 2 * last.omega + 393, 16000, 1800)
        /\ motor["rightShoulder"] = motor["leftShoulder"]

\* The example of the specification, theta = 0.3 and omega = -0.5, with a
\* key down.
C16_Witness ==
    /\ last.by = "update"
    /\ last.playing
    /\ last.theta = 300
    /\ last.omega = -500
    /\ Held # {}
    /\ motor["leftShoulder"] = PositionHold(493, 16000, 1800)
    /\ motor["rightShoulder"] = PositionHold(493, 16000, 1800)

\* C17: the target angle that the balance controller commands to the
\* shoulders lies within [SHOULDER.MIN_ANGLE, SHOULDER.MAX_ANGLE] for every
\* torso rotation and angular velocity, and is 0.4927 for theta = 0.3 and
\* omega = -0.5.
C17_TargetWithinShoulderLimits ==
    (last.by = "update" /\ last.playing) =>
        \A j \in {"leftShoulder", "rightShoulder"} :
            /\ motor[j].a >= SHOULDER_MIN_ANGLE
            /\ motor[j].a <= SHOULDER_MAX_ANGLE
            /\ (last.theta = 300 /\ last.omega = -500) => motor[j].a = 493

\* C18: an update step ends the run exactly when, for the pose after the
\* world step, torso.y + cos(rotation) * (TORSO.HEIGHT / 2 + 0.1) - 0.15 is
\* at most HEAD_GROUND_THRESHOLD = -4.8 (the inequality is multiplied by
\* 1000); at the spawn pose the head bottom is at -3.25 and the run goes on.
C18_FallDetection ==
    /\ (last.by = "update" /\ last.playing) =>
          (gameState = "GameOver"
           <=> 1000 * pose.y + pose.cosRot * 400 - 150000 <= -4800000)
    /\ SpawnPose.y + (SpawnPose.cosRot * 400) \div 1000 - 150 = -3250
    /\ ~isHeadTouchingGround(SpawnPose)

\* An update step that finds the head bottom exactly at the threshold.
C18_Witness ==
    /\ last.by = "update"
    /\ last.playing
    /\ pose.y = -5050
    /\ pose.rot = 0
    /\ gameState = "GameOver"

\* C19: Fallen is terminal for a run: once the game is over it stays over
\* until start() or restart() builds a new skeleton, and until then no motor
\* command, impulse or damping change reaches a link or a joint.
C19_FallenIsTerminalAndQuiet ==
    [][(gameState = "GameOver" /\ builds' = builds)
       => /\ gameState' = "GameOver"
          /\ motor' = motor
          /\ last'.impulses = <<>>
          /\ ~last'.damped]_vars

C21_BuildHoldsAllJoints ==
    last.by = "build" =>
        /\ \A j \in {"leftHip", "rightHip"} :
              motor[j] = PositionHold(0, 35000, 3000)
        /\ \A j \in {"leftKnee", "rightKnee"} :
              motor[j] = PositionHold(-50, 35000, 3000)
        /\ \A j \in {"leftShoulder", "rightShoulder"} :
              motor[j] = PositionHold(393, 35000, 3000)
        /\ \A j \in {"leftAnkle", "rightAnkle"} :
              /\ motor[j].mode = "position"
              /\ motor[j].b = 35000
              /\ motor[j].c = 3000

\* C22: control is handed over after stabilization: from a reset until the
\* stabilization sequence has restored the nominal damping (phase Normal),
\* neither the player's input nor the balance controller changes the motor
\* state of a joint away from what stabilizeJoints set at the build.
C22_ControlAfterStabilization ==
    Phase(damping) # "Normal" => motor = StabilizeMotors(joints)

\* C23, the liveness part: a run has a last reset (the player stops pressing
\* restart), and after it the damping of every link becomes the nominal
\* PHYSICS.LINEAR_DAMPING / ANGULAR_DAMPING and stays nominal.
C23_EventuallyNominal ==
    <>[](damping = NormalDamping)

\* C23, the order: as long as no reset happens, the damping only goes from
\* elevated (torso 1.0, other links 0.8) to the intermediate 0.5 and from
\* the intermediate 0.5 to nominal, and nominal damping stays.
C23_ElevatedThenIntermediate ==
    [][(builds' = builds /\ damping' # damping)
       => \/ damping = StabilizeDamping /\ damping' = RelaxingDamping
          \/ damping = RelaxingDamping /\ damping' = NormalDamping]_vars

\* C23: after a reset that is followed by no further reset the stabilization
\* sequence completes: the damping is first elevated, then the intermediate
\* 0.5, and eventually nominal for good.
C23_StabilizationCompletes ==
    C23_EventuallyNominal /\ C23_ElevatedThenIntermediate

\* The part of the runner or of the track that a body in the world belongs to.
PartOf(wb) ==
    IF wb = Ground THEN "Ground"
    ELSE IF wb[2] = "torso" THEN "Torso"
    ELSE IF wb[2] \in LeftLegLinks THEN "LeftLeg"
    ELSE IF wb[2] \in RightLegLinks THEN "RightLeg"
    ELSE "Arm"

\* The collision groups of the colliders of that part.
GroupsOf(part) ==
    {colliderGroups[wb] :
        wb \in {w \in DOMAIN colliderGroups : PartOf(w) = part}}

\* C24: with the rule that two colliders collide iff the membership bits of
\* each intersect the filter bits of the other, the torso collides with the
\* ground and with both legs, each leg collides with the ground and the
\* torso and never with the opposite leg, the ground collides with the
\* torso and both legs, and every thigh, calf and foot is built with the leg
\* filter of its own side (membership LEFT_LEG = 2 or RIGHT_LEG = 4, filter
\* GROUND | TORSO = 9).
C24_CollisionFiltering ==
    LET torso == GroupsOf("Torso")
        ground == GroupsOf("Ground")
        leftLeg == GroupsOf("LeftLeg")
        rightLeg == GroupsOf("RightLeg")
        hit(s1, s2) == \A g1 \in s1, g2 \in s2 : Collide(g1, g2)
        miss(s1, s2) == \A g1 \in s1, g2 \in s2 : ~Collide(g1, g2)
    IN  /\ hit(torso, ground) /\ hit(ground, torso)
        /\ hit(torso, leftLeg) /\ hit(leftLeg, torso)
        /\ hit(torso, rightLeg) /\ hit(rightLeg, torso)
        /\ hit(leftLeg, ground) /\ hit(ground, leftLeg)
        /\ hit(rightLeg, ground) /\ hit(ground, rightLeg)
        /\ miss(leftLeg, rightLeg) /\ miss(rightLeg, leftLeg)
        /\ \A g \in leftLeg : MembershipsOf(g) = 2 /\ FilterOf(g) = 9
        /\ \A g \in rightLeg : MembershipsOf(g) = 4 /\ FilterOf(g) = 9
        /\ \A wb \in worldBodies \cup {Ground} : wb \in DOMAIN colliderGroups

\* A skeleton built by start(): its left thigh and its right calf do not
\* collide, its left foot and the ground do, and so do its torso and its
\* right thigh.
C24_Witness ==
    /\ last.by = "build"
    /\ builds >= 2
    /\ ~Collide(colliderGroups[<<builds, "leftThigh">>],
                colliderGroups[<<builds, "rightCalf">>])
    /\ Collide(colliderGroups[<<builds, "leftFoot">>], colliderGroups[Ground])
    /\ Collide(colliderGroups[<<builds, "torso">>],
               colliderGroups[<<builds, "rightThigh">>])

\* The calls of one kind among the UI calls of the last step.
CallsOf(kind) == SelectSeq(last.ui, LAMBDA c : c.call = kind)

\* C25 as stated: on every update step of a run the UI receives the distance
\* travelled, and it receives the fallen event with the final score once per
\* run, on the step that detects the fall and on no other step.
C25_UIReceivesEveryStep ==
    /\ (last.by \in {"update", "skip"} /\ last.playing)
       => IF gameState = "GameOver"
          THEN CallsOf("showGameOver") = <<showGameOver(maxDistance)>>
          ELSE CallsOf("updateScore") = <<updateScore(pose.x)>>
    /\ CallsOf("showGameOver") # <<>>
       => /\ last.by \in {"update", "skip"}
          /\ last.playing
          /\ gameState = "GameOver"

\* C25 as the code has it: an update step of a run calls the UI exactly when
\* it detects the fall, with showGameOver(the maximum so far), or when the
\* torso is further than the maximum so far, with updateScore(the new
\* maximum); it makes no call on a step that does neither, and no step
\* calls the UI once the game is over, until the next start().
C25_UIReceivesNewMaximum ==
    [][/\ last'.by \in {"update", "skip"}
          => last'.ui =
                IF ~last'.playing THEN <<>>
                ELSE IF gameState' = "GameOver"
                     THEN <<showGameOver(maxDistance)>>
                ELSE IF pose'.x > maxDistance
                     THEN <<updateScore(pose'.x)>>
                ELSE <<>>
       /\ (gameState = "GameOver" /\ builds' = builds) => last'.ui = <<>>
       /\ maxDistance' >= maxDistance \/ builds' # builds]_vars

\* An update step of a run on which the runner, 0.5 m down the track, gets
\* no further: the UI is not called.
C25_Witness ==
    /\ last.by = "update"
    /\ last.playing
    /\ gameState = "Playing"
    /\ maxDistance = 500
    /\ pose.x = 500
    /\ last.ui = <<>>

\* The impulses of the last step on a link.
ImpulsesOn(link) == SelectSeq(last.impulses, LAMBDA i : i.link = link)

\* C26: on a step of the controller on which the gate fires, if the left
\* thigh's x offset from the torso is strictly greater than the right
\* thigh's, the right arm receives the impulse (0.1, 0) and the left arm
\* (-0.05, 0); if the right thigh's is strictly greater, the left arm
\* receives (0.1, 0) and the right arm (-0.05, 0); if the offsets are equal,
\* neither arm receives an impulse.
C26_ArmSwingDirection ==
    (last.by = "update" /\ last.fired) =>
        /\ last.leftRel > last.rightRel
           => /\ ImpulsesOn("rightArm") = <<Impulse("rightArm", 100, 0)>>
              /\ ImpulsesOn("leftArm") = <<Impulse("leftArm", -50, 0)>>
        /\ last.rightRel > last.leftRel
           => /\ ImpulsesOn("leftArm") = <<Impulse("leftArm", 100, 0)>>
              /\ ImpulsesOn("rightArm") = <<Impulse("rightArm", -50, 0)>>
        /\ last.leftRel = last.rightRel
           => /\ ImpulsesOn("leftArm") = <<>>
              /\ ImpulsesOn("rightArm") = <<>>

\* A step on which the gate fires with the left thigh 0.2 m ahead of the
\* torso and the right thigh level with it.
C26_Witness ==
    /\ last.by = "update"
    /\ last.fired
    /\ last.leftRel = 200
    /\ last.rightRel = 0
    /\ ImpulsesOn("rightArm") = <<Impulse("rightArm", 100, 0)>>
    /\ ImpulsesOn("leftArm") = <<Impulse("leftArm", -50, 0)>>

\* C27: the arm-swing impulses are applied at most once per 80 ms gate
\* period: only on update steps on which the shared gate opens (the steps on
\* which a leg kick is allowed), so that two consecutive arm swings are at
\* least 80 ms of gate time apart.
C27_SwingOnlyWhenGateOpens ==
    (/\ last.by = "update"
     /\ ImpulsesOn("leftArm") \o ImpulsesOn("rightArm") # <<>>)
    => /\ last.fired
       /\ last.gateTime >= impulseInterval

\* C28: the stabilization impulses are one-shot per build: the torso of a
\* skeleton built by start() or restart() receives exactly one upward linear
\* impulse and exactly one corrective angular impulse from stabilization
\* (never a second one, and one of each once no timer of a start() is
\* pending), also when restart() follows within 100 ms of the previous
\* start().
C28_StabilizationImpulsesOneShot ==
    /\ torsoImpulses.up <= 1
    /\ torsoImpulses.ang <= 1
    /\ (/\ builds >= 2
        /\ \A i \in DOMAIN timers : timers[i].kind # "startImpulse")
       => (torsoImpulses.up = 1 /\ torsoImpulses.ang = 1)

\* C29 as stated: in every update step of the controller the balance
\* controller runs after the world step: the shoulder commands are computed
\* from the torso rotation and angular velocity after the world step of the
\* same update, never from those before it.
C29_BalanceReadsPostStepPose ==
    [][last'.by = "update"
       => \A j \in {"leftShoulder", "rightShoulder"} :
             motor'[j] = PositionHold(-3 * pose'.rot - 2 * pose'.angvel + 393,
                                      16000, 1800)]_vars

\* C29 as the code has it: in every update step of the controller the input
\* commands and the balance controller come before the world step and the
\* fall detector after it: the hips and knees get the commands of the keys,
\* the shoulder commands are computed from the torso rotation and angular
\* velocity as they are before the world step of the same update, and the
\* run ends exactly when the head touches the ground in the pose after it.
C29_BalanceReadsPreStepPose ==
    [][last'.by = "update"
       => /\ \A j \in {"leftShoulder", "rightShoulder"} :
                motor'[j] = PositionHold(-3 * pose.rot - 2 * pose.angvel + 393,
                                         16000, 1800)
          /\ \A k \in Keys :
                motor'[JointOf(k)] = IF keyState[k] THEN DriveOf(k)
                                     ELSE ReleaseOf(k)
          /\ gameState' = "GameOver"
             <=> 1000 * pose'.y + pose'.cosRot * 400 - 150000 <= -4800000]_vars

\* An update step during which the runner goes from upright and at rest to
\* leaning by 0.3 rad with angular velocity -0.5: the shoulders hold the
\* target of the upright pose, 0.393, not that of the leaning pose, 0.493.
C29_Witness ==
    /\ last.by = "update"
    /\ last.theta = 0
    /\ last.omega = 0
    /\ pose.rot = 300
    /\ pose.angvel = -500
    /\ gameState = "Playing"
    /\ motor["leftShoulder"] = PositionHold(393, 16000, 1800)
    /\ motor["rightShoulder"] = PositionHold(393, 16000, 1800)

\* C30: after any sequence of start(), restart() and animation-frame
\* callbacks at most one gameLoop callback is pending, and none while a
\* gameLoop call runs, so a single loop advances the simulation; each
\* gameLoop call runs floor(accumulator / FIXED_TIMESTEP) update steps, where
\* accumulator is the value with which it enters its while loop, and leaves
\* 0 <= accumulator < FIXED_TIMESTEP.
C30_SingleLoopFixedSteps ==
    [][/\ rafPending' <= 1
       /\ pc' = "loop" => rafPending' = 0
       /\ (pc = "loop" /\ pc' = "idle")
          => /\ loopSteps = loopEntered \div FIXED_TIMESTEP
             /\ accumulator' = loopEntered % FIXED_TIMESTEP
             /\ accumulator' >= 0
             /\ accumulator' < FIXED_TIMESTEP]_vars

\* After a restart: a gameLoop call that has run two update steps out of an
\* accumulator that was no multiple of the fixed timestep, and is about to
\* leave the remainder.
C30_Witness ==
    /\ builds = 3
    /\ pc = "loop"
    /\ rafPending = 0
    /\ last.by = "update"
    /\ last.step = 2
    /\ last.entered > 2 * FIXED_TIMESTEP
    /\ accumulator = last.entered - 2 * FIXED_TIMESTEP
    /\ accumulator < FIXED_TIMESTEP

=============================================================================
